---- MODULE Spec2Model ----
\* DPoR consensus snapshot engine (consensus/dpor/snapshot.go, lines 1-733):
\* the snapshot record, newSnapshot, copy, apply, applyHeader, the committee
\* setters with their eviction rule, term arithmetic, the committee queries,
\* and store / loadSnapshot over the key-value database.
\*
\* Scaling.  Addresses are modelled by their leading byte, hashes by small
\* naturals, uint64 by naturals modulo UintMod, and the signed 64-bit seed
\* (Hash().Big().Int64()) by the low SeedBits bits read as two's complement.
EXTENDS Integers, Sequences, FiniteSets, TLC

\* ------------------------------------------------------------------ bounds
MaxTermLen    == 2     \* TermLen is drawn from 1..MaxTermLen
MaxViewLen    == 2     \* ViewLen is drawn from 1..MaxViewLen
MaxInitTerms  == 2     \* MaxInitBlockNumber is 0..MaxInitTerms terms long
MaxNumber     == 5     \* highest block number a header carries
MaxHash       == 1     \* header hashes are 0..MaxHash
SeedBits      == 1     \* width of the seed (64 in the program)
MaxBatch      == 2     \* longest header list handed to apply
MaxQueryNum   == 5     \* block numbers asked of the queries: 0..MaxQueryNum
MaxSetTerm    == 3     \* terms written directly through setRecentProposers
MaxHeight     == 7     \* length of the chain applied one header at a time
MaxConcHeight == 2     \* headers applied while a reader looks on
MaxDepth      == 2     \* confirmation depth of the unconfirmed-block tracker
MaxIndex      == 2     \* highest block number handed to the tracker
MaxEntries    == 2     \* tracked blocks when blocks are inserted in any order

\* ------------------------------------------------------- program constants
TermGapBetweenElectionAndMining == 3
MaxSizeOfRecentSigners          == 5
MaxSizeOfRecentProposers        == 5
MaxSizeOfRecentValidators       == 5

UintMod == 2 ^ 16      \* 2^64 in the program
SeedMod == 2 ^ SeedBits

ErrNil                     == "nil"
ErrInvalidChain            == "errInvalidChain"
ErrGenesisBlockNumber      == "errGenesisBlockNumber"
ErrProposerNotInCommittee  == "errProposerNotInCommittee"
ErrValidatorNotInCommittee == "errValidatorNotInCommittee"
ErrNotFound                == "leveldb: not found"
\* Not an error value: the panic of s.candidates()[:s.config.TermLen] on a
\* roster shorter than TermLen.  It unwinds applyHeader and apply.
PanicSliceBounds           == "panic: runtime error: slice bounds out of range"

\* The candidate roster hard-coded in updateCandidates, by leading byte.
DefaultCandidates == <<233, 192, 239, 58, 110, 34, 123, 47, 228, 50>>

VARIABLES
    config,       \* *configs.DporConfig: TermLen, ViewLen, MaxInitBlockNumber
    convOverflow, \* what uint64(float64(x)) yields for x >= 2^64 on this build
    seedSigners,  \* the signers newSnapshot was given
    s,            \* the snapshot the caller holds
    pre,          \* the receiver as it was when the last apply was called
    hdrs,         \* the header list of the last apply
    ret,          \* <<snapshot>> returned by the last apply, << >> for nil
    same,         \* the pointer returned by the last apply is the receiver itself
    err,          \* error returned by the last apply
    trace,        \* the copy made by apply, then its content after each applyHeader
    q,            \* the last query: operation, arguments, result
    last,         \* the operation last called, "idle" once its result is taken
    db,           \* database.Database: key -> blob
    stored,       \* key -> the snapshot as it was when it was stored under the key
    loaded,       \* what the last loadSnapshot returned
    conc,         \* a goroutine in applyHeader on s, and a reader of s
    got,          \* what a getter of s returned, and the slices it shares with s
    set           \* *unconfirmedBlocks of the miner, with its last call

vars == <<config, convOverflow, seedSigners, s, pre, hdrs, ret, same, err, trace, q,
          last, db, stored, loaded, conc, got, set>>

\* ------------------------------------------------------- unsigned arithmetic
USub(a, b) == (a - b + UintMod) % UintMod
UAdd(a, b) == (a + b) % UintMod
UMul(a, b) == (a * b) % UintMod

\* ------------------------------------------------------------------- maps
EmptyMap == [t \in {} |-> << >>]
MapSet(m, k, v) == [t \in (DOMAIN m) \cup {k} |-> IF t = k THEN v ELSE m[t]]
MapDel(m, k) == [t \in (DOMAIN m) \ {k} |-> m[t]]

Last(seq) == seq[Len(seq)]

\* ------------------------------------------------------------- the setters
\* beforeTerm := uint64(math.Max(0, float64(term-Max))): term-Max wraps below
\* Max, float64 rounds the wrapped value to 2^64, and the conversion back is
\* out of range, so its result is whatever the build yields.
BeforeTerm(term, max) ==
    IF term >= max THEN term - max ELSE convOverflow

\* Faulty variant: the entry of beforeTerm is kept.
SetRecentKeepsAll(m, term, signers, max) == MapSet(m, term, signers)

SetRecent(m, term, signers, max) ==
    MapDel(MapSet(m, term, signers), BeforeTerm(term, max))

setRecentSigners(snap, term, signers) ==
    [snap EXCEPT !.RecentSigners =
        SetRecent(snap.RecentSigners, term, signers, MaxSizeOfRecentSigners)]

setRecentProposers(snap, term, proposers) ==
    [snap EXCEPT !.RecentProposers =
        SetRecent(snap.RecentProposers, term, proposers, MaxSizeOfRecentProposers)]

setRecentValidators(snap, term, validators) ==
    [snap EXCEPT !.RecentValidators =
        SetRecent(snap.RecentValidators, term, validators, MaxSizeOfRecentValidators)]

setNumber(snap, number) == [snap EXCEPT !.Number = number]

setHash(snap, hash) == [snap EXCEPT !.Hash = hash]

setCandidates(snap, candidates) == [snap EXCEPT !.Candidates = candidates]

\* -------------------------------------------------------- term arithmetic
TermLen == config.TermLen
ViewLen == config.ViewLen
MaxInitBlockNumber == config.MaxInitBlockNumber

\* Faulty variant: the block number is not shifted by one.
TermOfUnshifted(blockNum) ==
    IF blockNum = 0 THEN 0
    ELSE blockNum \div UMul(TermLen, ViewLen)

TermOf(blockNum) ==
    IF blockNum = 0 THEN 0
    ELSE USub(blockNum, 1) \div UMul(TermLen, ViewLen)

Term(snap) == TermOf(snap.Number)

\* Faulty variant: the election is for the term after the current one.
FutureTermOfNextTerm(blockNum) ==
    UAdd(TermOf(blockNum), 1)

FutureTermOf(blockNum) ==
    UAdd(TermOf(blockNum), TermGapBetweenElectionAndMining)

\* IsCheckPoint is not among the sources; the specification gives its rule.
IsCheckPoint(number, termLen, viewLen) ==
    USub(number, 1) % UMul(termLen, viewLen) = 0

\* ------------------------------------------------------------ construction
newSnapshot(number, hash, signers) ==
    LET snap == [Number |-> number, Hash |-> hash, Candidates |-> << >>,
                 RecentSigners |-> EmptyMap, RecentProposers |-> EmptyMap,
                 RecentValidators |-> EmptyMap]
    IN setRecentSigners(snap, Term(snap), signers)

\* Faulty variant of the range loop below: it is left after its first entry.
CopyRangeFirstEntry(work, m) ==
    UNION {IF w[2] = {} THEN {w[1]}
           ELSE {setRecentSigners(w[1], term, m[term]) : term \in w[2]} : w \in work}

\* copy ranges over the three maps in the order Go's map iteration happens
\* to produce and writes every entry through setRecentSigners.  CopyRange
\* gives every outcome of one range loop: each element of work is a copy
\* built so far with the terms that loop has still to visit.
RECURSIVE CopyRange(_, _)
CopyRange(work, m) ==
    IF \A w \in work : w[2] = {} THEN {w[1] : w \in work}
    ELSE CopyRange(UNION {{<<setRecentSigners(w[1], term, m[term]), w[2] \ {term}>>
                              : term \in w[2]} : w \in work}, m)

\* Faulty variant: the loop over the legacy signers is missing.
CopiesWithoutSigners(snap) ==
    LET cpy == [Number |-> snap.Number, Hash |-> snap.Hash,
                Candidates |-> snap.Candidates,
                RecentSigners |-> EmptyMap, RecentProposers |-> EmptyMap,
                RecentValidators |-> EmptyMap]
        c2 == CopyRange({<<cpy, DOMAIN snap.RecentProposers>>}, snap.RecentProposers)
    IN CopyRange({<<c, DOMAIN snap.RecentValidators>> : c \in c2},
                 snap.RecentValidators)

\* Every snapshot s.copy() can return.
Copies(snap) ==
    LET cpy == [Number |-> snap.Number, Hash |-> snap.Hash,
                Candidates |-> snap.Candidates,
                RecentSigners |-> EmptyMap, RecentProposers |-> EmptyMap,
                RecentValidators |-> EmptyMap]
        c1 == CopyRange({<<cpy, DOMAIN snap.RecentSigners>>}, snap.RecentSigners)
        c2 == CopyRange({<<c, DOMAIN snap.RecentProposers>> : c \in c1},
                        snap.RecentProposers)
    IN CopyRange({<<c, DOMAIN snap.RecentValidators>> : c \in c2},
                 snap.RecentValidators)

\* ----------------------------------------------------------- the election
\* election.Elect is not among the sources.  The specification fixes its
\* contract: rank by score descending, ties by ascending address; draw k
\* distinct addresses by a seeded weighted selection without replacement in
\* which a higher rank weighs more.  The generator below is a linear
\* congruential stream started from the seed's unsigned bits.
RandMod == 2 ^ 6
NextRand(x) == (37 * x + 11) % RandMod

RankBefore(a, b) ==
    a.Rpt > b.Rpt \/ (a.Rpt = b.Rpt /\ a.Address < b.Address)

RECURSIVE Ranking(_)
Ranking(S) ==
    IF S = {} THEN << >>
    ELSE LET top == CHOOSE x \in S : \A y \in S \ {x} : RankBefore(x, y)
         IN <<top>> \o Ranking(S \ {top})

\* Weight of rank i among n is n - i + 1; CumWeight is the running total.
CumWeight(n, i) == i * n - (i * (i - 1)) \div 2
WeightedIndex(n, r) == CHOOSE i \in 1..n : CumWeight(n, i) > r /\ CumWeight(n, i - 1) <= r

RemoveAt(seq, i) == SubSeq(seq, 1, i - 1) \o SubSeq(seq, i + 1, Len(seq))

RECURSIVE ElectFrom(_, _, _)
ElectFrom(rank, x, k) ==
    IF k = 0 \/ rank = << >> THEN << >>
    ELSE LET x1 == NextRand(x)
             n  == Len(rank)
             i  == WeightedIndex(n, x1 % CumWeight(n, n))
         IN <<rank[i].Address>> \o ElectFrom(RemoveAt(rank, i), x1, k - 1)

Elect(rpts, seed, k) ==
    IF Len(rpts) < k THEN << >>
    ELSE ElectFrom(Ranking({rpts[i] : i \in 1..Len(rpts)}), seed % SeedMod, k)

\* ------------------------------------------------------------ applyHeader
\* header.Hash().Big().Int64(): the low bits of the hash, read as signed.
Int64(hash) ==
    LET m == hash % SeedMod
    IN IF m >= SeedMod \div 2 THEN m - SeedMod ELSE m

updateCandidates(snap, header) == setCandidates(snap, DefaultCandidates)

updateRpts(snap, header) ==
    [idx \in 1..Len(snap.Candidates) |->
        [Address |-> snap.Candidates[idx], Rpt |-> idx - 1]]

\* Faulty variant: the block at MaxInitBlockNumber still uses the roster.
ifUseDefaultSignersInclusive(snap) == snap.Number <= MaxInitBlockNumber

ifUseDefaultSigners(snap) == snap.Number < MaxInitBlockNumber

ifStartElection(snap) ==
    snap.Number >= USub(MaxInitBlockNumber,
        UMul(UMul(TermLen, TermGapBetweenElectionAndMining - 1), ViewLen))

\* Faulty variant: the static roster is cut one address too long.
updateSignersLongRoster(snap, rpts, seed) ==
    LET signers == SubSeq(snap.Candidates, 1, TermLen + 1)
        s1 == IF ifUseDefaultSigners(snap)
              THEN setRecentSigners(snap, UAdd(Term(snap), 1), signers)
              ELSE snap
    IN [snap |-> IF ifStartElection(s1)
                 THEN setRecentSigners(s1, FutureTermOf(s1.Number), Elect(rpts, seed, TermLen))
                 ELSE s1,
        err |-> ErrNil]

\* signers := s.candidates()[:s.config.TermLen] comes first: the slice made
\* by setCandidates has no spare capacity, so the expression panics when
\* TermLen is above the length of the roster.  Otherwise the error is nil.
updateSigners(snap, rpts, seed) ==
    IF TermLen > Len(snap.Candidates) THEN [snap |-> snap, err |-> PanicSliceBounds]
    ELSE
    LET signers == SubSeq(snap.Candidates, 1, TermLen)
        s1 == IF ifUseDefaultSigners(snap)
              THEN setRecentSigners(snap, UAdd(Term(snap), 1), signers)
              ELSE snap
    IN [snap |-> IF ifStartElection(s1)
                 THEN setRecentSigners(s1, FutureTermOf(s1.Number), Elect(rpts, seed, TermLen))
                 ELSE s1,
        err |-> ErrNil]

\* Faulty variant: the election runs on every header.
applyHeaderAlwaysElects(snap, header) ==
    LET s1 == [snap EXCEPT !.Number = header.Number, !.Hash = header.Hash]
        s2 == updateCandidates(s1, header)
        rpts == updateRpts(s2, header)
    IN updateSigners(s2, rpts, Int64(header.Hash))

applyHeader(snap, header) ==
    LET s1 == [snap EXCEPT !.Number = header.Number, !.Hash = header.Hash]
        s2 == updateCandidates(s1, header)
        rpts == updateRpts(s2, header)
    IN IF IsCheckPoint(s2.Number, TermLen, ViewLen)
       THEN updateSigners(s2, rpts, Int64(header.Hash))
       ELSE [snap |-> s2, err |-> ErrNil]

\* ------------------------------------------------------------------ apply
\* Faulty variant: the check against the snapshot's own number is missing.
ValidChainNoStart(snap, headers) ==
    \A i \in 1..(Len(headers) - 1) :
        headers[i + 1].Number = UAdd(headers[i].Number, 1)

\* The sanity check of apply: consecutive numbers, starting at Number + 1.
ValidChain(snap, headers) ==
    /\ \A i \in 1..(Len(headers) - 1) :
          headers[i + 1].Number = UAdd(headers[i].Number, 1)
    /\ headers[1].Number = UAdd(snap.Number, 1)

\* Faulty variant: return s, errInvalidChain.
ApplyInvalidReturnsSnap(snap) ==
    [recv |-> snap, ret |-> <<snap>>, err |-> ErrInvalidChain, trace |-> << >>]

\* return nil, errInvalidChain
ApplyInvalid(snap) ==
    [recv |-> snap, ret |-> << >>, err |-> ErrInvalidChain, trace |-> << >>]

\* The loop over the headers: tr ends with the snapshot built so far.
RECURSIVE ApplyLoop(_, _)
ApplyLoop(tr, headers) ==
    IF headers = << >> THEN [trace |-> tr, err |-> ErrNil]
    ELSE LET r == applyHeader(Last(tr), Head(headers))
         IN IF r.err # ErrNil
            THEN [trace |-> Append(tr, r.snap), err |-> r.err]
            ELSE ApplyLoop(Append(tr, r.snap), Tail(headers))

\* Faulty variant: the first header of the batch instead of the last.
ApplyFinishFirstHeader(snap, headers) ==
    [snap EXCEPT !.Number = Head(headers).Number, !.Hash = Head(headers).Hash]

\* snap.setNumber / snap.setHash with the last header, after the loop.
ApplyFinish(snap, headers) ==
    [snap EXCEPT !.Number = Last(headers).Number, !.Hash = Last(headers).Hash]

\* Faulty variant: an empty list gives no snapshot.
ApplyEmptyReturnsNil(snap, headers, cpy) ==
    IF Len(headers) = 0
    THEN [recv |-> snap, ret |-> << >>, err |-> ErrNil, trace |-> << >>]
    ELSE IF ~ValidChain(snap, headers)
    THEN ApplyInvalid(snap)
    ELSE LET run == ApplyLoop(<<cpy>>, headers)
         IN IF run.err # ErrNil
            THEN [recv |-> snap, ret |-> << >>, err |-> run.err, trace |-> run.trace]
            ELSE [recv |-> snap, ret |-> <<ApplyFinish(Last(run.trace), headers)>>,
                  err |-> ErrNil, trace |-> run.trace]

\* return s, nil: for an empty list apply hands back its receiver, not a copy.
ReturnsReceiver(headers) == Len(headers) = 0

\* cpy is what s.copy() returned in this call.
Apply(snap, headers, cpy) ==
    IF Len(headers) = 0
    THEN [recv |-> snap, ret |-> <<snap>>, err |-> ErrNil, trace |-> << >>]
    ELSE IF ~ValidChain(snap, headers)
    THEN ApplyInvalid(snap)
    ELSE LET run == ApplyLoop(<<cpy>>, headers)
         IN IF run.err # ErrNil
            THEN [recv |-> snap, ret |-> << >>, err |-> run.err, trace |-> run.trace]
            ELSE [recv |-> snap, ret |-> <<ApplyFinish(Last(run.trace), headers)>>,
                  err |-> ErrNil, trace |-> run.trace]

\* ------------------------------------------------------------ persistence
\* The text of a number in the given base, most significant digit first.
RECURSIVE FormatUint(_, _)
FormatUint(n, base) ==
    IF n < base THEN <<n>>
    ELSE Append(FormatUint(n \div base, base), n % base)

RECURSIVE ParseUint(_, _)
ParseUint(text, base) ==
    IF Len(text) = 0 THEN 0
    ELSE UAdd(UMul(ParseUint(SubSeq(text, 1, Len(text) - 1), base), base), Last(text))

\* common.Hash and common.Address marshal as hexadecimal text.
HexText(n) == FormatUint(n, 16)
FromHexText(text) == ParseUint(text, 16)

\* Byte-wise order of two key texts, as encoding/json sorts the keys of a map.
RECURSIVE TextBefore(_, _)
TextBefore(a, b) ==
    IF Len(a) = 0 THEN Len(b) > 0
    ELSE IF Len(b) = 0 THEN FALSE
    ELSE IF Head(a) # Head(b) THEN Head(a) < Head(b)
    ELSE TextBefore(Tail(a), Tail(b))

AddrTexts(list) == [i \in 1..Len(list) |-> HexText(list[i])]
FromAddrTexts(texts) == [i \in 1..Len(texts) |-> FromHexText(texts[i])]

\* A map[uint64][]common.Address as a JSON object: decimal keys, sorted as text.
RECURSIVE MarshalMap(_, _)
MarshalMap(m, terms) ==
    IF terms = {} THEN << >>
    ELSE LET first == CHOOSE t \in terms : \A u \in terms \ {t} :
                          TextBefore(FormatUint(t, 10), FormatUint(u, 10))
         IN <<[key |-> FormatUint(first, 10), value |-> AddrTexts(m[first])]>>
                \o MarshalMap(m, terms \ {first})

RECURSIVE UnmarshalMap(_)
UnmarshalMap(entries) ==
    IF Len(entries) = 0 THEN EmptyMap
    ELSE MapSet(UnmarshalMap(SubSeq(entries, 1, Len(entries) - 1)),
                ParseUint(Last(entries).key, 10), FromAddrTexts(Last(entries).value))

\* json.Marshal(s): the exported fields under their tags.  config and lock
\* are unexported; the contract caller of the snapshots here is nil.
Marshal(snap) ==
    [number         |-> FormatUint(snap.Number, 10),
     hash           |-> HexText(snap.Hash),
     candidates     |-> AddrTexts(snap.Candidates),
     signers        |-> MarshalMap(snap.RecentSigners, DOMAIN snap.RecentSigners),
     proposers      |-> MarshalMap(snap.RecentProposers, DOMAIN snap.RecentProposers),
     validators     |-> MarshalMap(snap.RecentValidators, DOMAIN snap.RecentValidators),
     ContractCaller |-> "null"]

\* json.Unmarshal(blob, snap) into new(DporSnapshot).
Unmarshal(blob) ==
    [Number           |-> ParseUint(blob.number, 10),
     Hash             |-> FromHexText(blob.hash),
     Candidates       |-> FromAddrTexts(blob.candidates),
     RecentSigners    |-> UnmarshalMap(blob.signers),
     RecentProposers  |-> UnmarshalMap(blob.proposers),
     RecentValidators |-> UnmarshalMap(blob.validators)]

\* append([]byte("dpor-"), hash[:]...)
Key(hash) == <<"dpor-", hash>>

\* Faulty variant: a key already in the database keeps its blob.
storeOnce(snap, d) ==
    IF Key(snap.Hash) \in DOMAIN d THEN d ELSE MapSet(d, Key(snap.Hash), Marshal(snap))

\* s.store(db): the database after db.Put(key, blob).
store(snap, d) == MapSet(d, Key(snap.Hash), Marshal(snap))

\* Faulty variant: snap.config = config is missing.
loadSnapshotNoConfig(cfg, d, hash) ==
    IF Key(hash) \notin DOMAIN d
    THEN [hash |-> hash, snap |-> << >>, config |-> << >>, err |-> ErrNotFound]
    ELSE [hash |-> hash, snap |-> <<Unmarshal(d[Key(hash)])>>, config |-> << >>,
          err |-> ErrNil]

\* Faulty variant: the error of db.Get is dropped.
loadSnapshotIgnoresGetError(cfg, d, hash) ==
    IF Key(hash) \notin DOMAIN d
    THEN [hash |-> hash, snap |-> <<newSnapshot(0, hash, << >>)>>, config |-> <<cfg>>,
          err |-> ErrNil]
    ELSE [hash |-> hash, snap |-> <<Unmarshal(d[Key(hash)])>>, config |-> <<cfg>>,
          err |-> ErrNil]

loadSnapshot(cfg, d, hash) ==
    IF Key(hash) \notin DOMAIN d
    THEN [hash |-> hash, snap |-> << >>, config |-> << >>, err |-> ErrNotFound]
    ELSE [hash |-> hash, snap |-> <<Unmarshal(d[Key(hash)])>>, config |-> <<cfg>>,
          err |-> ErrNil]

\* ---------------------------------------------------------------- queries
getRecentSigners(snap, term) ==
    IF term \in DOMAIN snap.RecentSigners THEN snap.RecentSigners[term] ELSE << >>

getRecentProposers(snap, term) ==
    IF term \in DOMAIN snap.RecentProposers THEN snap.RecentProposers[term] ELSE << >>

getRecentValidators(snap, term) ==
    IF term \in DOMAIN snap.RecentValidators THEN snap.RecentValidators[term] ELSE << >>

SignersOf(snap, number) == getRecentSigners(snap, TermOf(number))
ValidatorsOf(snap, number) == getRecentValidators(snap, TermOf(number))
ProposersOf(snap, number) == getRecentProposers(snap, TermOf(number))
\* Faulty variant: the committee of the block's own term.
FutureProposersOfOwnTerm(snap, number) == getRecentProposers(snap, TermOf(number))

FutureProposersOf(snap, number) == getRecentProposers(snap, FutureTermOf(number))

\* The loop of the ...ViewOf methods: the first position holding addr, 0-based.
RECURSIVE ViewIn(_, _, _)
ViewIn(committee, addr, view) ==
    IF view >= Len(committee) THEN -1
    ELSE IF committee[view + 1] = addr THEN view
    ELSE ViewIn(committee, addr, view + 1)

ProposerViewOf(snap, proposer, number) ==
    LET view == ViewIn(ProposersOf(snap, number), proposer, 0)
    IN IF view >= 0 THEN [view |-> view, err |-> ErrNil]
       ELSE [view |-> -1, err |-> ErrProposerNotInCommittee]

ValidatorViewOf(snap, validator, number) ==
    LET view == ViewIn(ValidatorsOf(snap, number), validator, 0)
    IN IF view >= 0 THEN [view |-> view, err |-> ErrNil]
       ELSE [view |-> -1, err |-> ErrValidatorNotInCommittee]

\* Faulty variant: the legacy signers of the term are searched.
IsValidatorOfSigners(snap, validator, number) ==
    ViewIn(SignersOf(snap, number), validator, 0) >= 0

IsValidatorOf(snap, validator, number) ==
    ValidatorViewOf(snap, validator, number).err = ErrNil

\* Faulty variant: the leader is the first member of the committee.
IsLeaderOfFirstView(snap, signer, number) ==
    IF number = 0 THEN [ok |-> FALSE, err |-> ErrGenesisBlockNumber]
    ELSE LET v == ProposerViewOf(snap, signer, number)
         IN IF v.err # ErrNil THEN [ok |-> FALSE, err |-> v.err]
            ELSE [ok |-> v.view = 0, err |-> ErrNil]

IsLeaderOf(snap, signer, number) ==
    IF number = 0 THEN [ok |-> FALSE, err |-> ErrGenesisBlockNumber]
    ELSE LET v == ProposerViewOf(snap, signer, number)
         IN IF v.err # ErrNil THEN [ok |-> FALSE, err |-> v.err]
            ELSE [ok |-> v.view = (USub(number, 1) % UMul(TermLen, ViewLen)) \div ViewLen,
                  err |-> ErrNil]

\* Faulty variant: the turn passes to the next member with every block.
IsProposerOfEveryBlock(snap, signer, number) ==
    IF number = 0 THEN [ok |-> FALSE, err |-> ErrGenesisBlockNumber]
    ELSE LET v == ProposerViewOf(snap, signer, number)
         IN IF v.err # ErrNil THEN [ok |-> FALSE, err |-> v.err]
            ELSE [ok |-> v.view = USub(number, 1) % TermLen, err |-> ErrNil]

\* Faulty variant: the slot is not divided by ViewLen.
IsProposerOfBlockSlot(snap, signer, number) ==
    IF number = 0 THEN [ok |-> FALSE, err |-> ErrGenesisBlockNumber]
    ELSE LET v == ProposerViewOf(snap, signer, number)
         IN IF v.err # ErrNil THEN [ok |-> FALSE, err |-> v.err]
            ELSE [ok |-> v.view = USub(number, 1) % UMul(TermLen, ViewLen),
                  err |-> ErrNil]

\* Faulty variant: block 0 is not refused.
IsProposerOfNoGenesisCheck(snap, signer, number) ==
    LET v == ProposerViewOf(snap, signer, number)
    IN IF v.err # ErrNil THEN [ok |-> FALSE, err |-> v.err]
       ELSE [ok |-> v.view = (USub(number, 1) % UMul(TermLen, ViewLen)) \div ViewLen,
             err |-> ErrNil]

IsProposerOf(snap, signer, number) ==
    IF number = 0 THEN [ok |-> FALSE, err |-> ErrGenesisBlockNumber]
    ELSE LET v == ProposerViewOf(snap, signer, number)
         IN IF v.err # ErrNil THEN [ok |-> FALSE, err |-> v.err]
            ELSE [ok |-> v.view = (USub(number, 1) % UMul(TermLen, ViewLen)) \div ViewLen,
                  err |-> ErrNil]

InturnOf(snap, number, signer) ==
    LET r == IsProposerOf(snap, signer, number)
    IN IF r.err # ErrNil THEN FALSE ELSE r.ok

\* A miss is reported with errValidatorNotInCommittee.
FutureProposerViewOf(snap, signer, number) ==
    LET view == ViewIn(FutureProposersOf(snap, number), signer, 0)
    IN IF view >= 0 THEN [view |-> view, err |-> ErrNil]
       ELSE [view |-> -1, err |-> ErrValidatorNotInCommittee]

IsFutureProposerOf(snap, proposer, number) ==
    FutureProposerViewOf(snap, proposer, number).err = ErrNil

\* ------------------------------------------------------------- the inputs
Configs ==
    {[TermLen |-> tl, ViewLen |-> vl, MaxInitBlockNumber |-> k * tl * vl] :
        tl \in 1..MaxTermLen, vl \in 1..MaxViewLen, k \in 0..MaxInitTerms}

HashSet == 0..MaxHash

\* Addresses handed to newSnapshot and to the setters: two of the roster.
\* The queries are also asked about an address that is in no roster.
SomeAddrs == {DefaultCandidates[1], DefaultCandidates[2]}
QueryAddrs == SomeAddrs \cup {DefaultCandidates[1] + 1}

Committees(len) ==
    {c \in [1..len -> SomeAddrs] : \A i, j \in 1..len : i # j => c[i] # c[j]}

\* The lists apply accepts on a snapshot at block n: the empty list and the
\* lists of consecutive headers that start at n + 1.
RECURSIVE ChainsFrom(_, _)
ChainsFrom(n, len) ==
    IF len = 0 \/ n >= MaxNumber THEN {<< >>}
    ELSE {<< >>} \cup
         {<<[Number |-> n + 1, Hash |-> hash]>> \o rest :
             hash \in HashSet, rest \in ChainsFrom(n + 1, len - 1)}

\* Header lists for apply: each header has the next number or skips a block.
RECURSIVE HeaderListsFrom(_, _)
HeaderListsFrom(n, len) ==
    IF len = 0 THEN {<< >>}
    ELSE {<< >>} \cup
         UNION {{<<h>> \o rest : rest \in HeaderListsFrom(h.Number, len - 1)}
                  : h \in [Number : {m \in {n + 1, n + 2} : m <= MaxNumber},
                           Hash : HashSet]}

\* Block numbers written through setNumber.
SetNumbers == {13}

\* A committee other than the seed committee.
OtherCommittee == CHOOSE c \in Committees(TermLen) : c # seedSigners

\* ---------------------------------------------- miner: unconfirmedBlocks
\* A ring is the sequence of its values, read from the element the pointer
\* is at.  r.Move(n): the pointer goes n elements on (back for n < 0).
RingMove(r, n) ==
    IF r = << >> THEN r
    ELSE [i \in 1..Len(r) |-> r[((i - 1 + n) % Len(r)) + 1]]

\* r.Link(item): the ring item is put in after the element r is at.
RingLink(r, item) == <<r[1]>> \o item \o Tail(r)

\* r.Unlink(n): the n elements after the one r is at are taken out.
RingUnlink(r, n) == <<r[1]>> \o SubSeq(r, n + 2, Len(r))

\* item := ring.New(1) with Value &unconfirmedBlock{index, hash};
\* set.blocks = item on a nil ring, else set.blocks.Move(-1).Link(item):
\* set.blocks stays at the oldest block, the item comes last.
Linked(blocks, item) ==
    IF blocks = << >> THEN item
    ELSE RingMove(RingLink(RingMove(blocks, -1), item), 1 + Len(item))

\* Faulty variant: Unlink without the moves takes out the block after the
\* oldest.
DropAfterFront(blocks) ==
    IF Len(blocks) = 1 THEN << >>
    ELSE RingUnlink(blocks, 1)

\* The oldest block leaves the ring.  set.blocks.Value ==
\* set.blocks.Next().Value compares two pointers: equal in a ring of one.
Drop(blocks) ==
    IF Len(blocks) = 1 THEN << >>
    ELSE RingMove(RingUnlink(RingMove(blocks, -1), 1), 1)

\* What set.chain.GetHeaderByNumber may return: nil, or a header by its hash.
Headers == {<< >>} \cup {<<hash>> : hash \in HashSet}

\* Faulty variant: a missing header counts as a side fork.
ReportNoUnknown(header, blk) ==
    IF header # << >> /\ header[1] = blk.hash THEN "canonical" ELSE "side fork"

\* The switch of Shift: which message is logged for blk.
Report(header, blk) ==
    IF header = << >> THEN "unknown"
    ELSE IF header[1] = blk.hash THEN "canonical"
    ELSE "side fork"

\* Faulty variant: a block is dropped one height late.
TooFreshStrict(blk, depth, height) == UAdd(blk.index, depth) >= height

\* blk.index+uint64(set.depth) > height
TooFresh(blk, depth, height) == UAdd(blk.index, depth) > height

\* Faulty variant: one block at most is dropped in a call.
ShiftLoopOnce(blocks, depth, height, log) ==
    IF blocks = << >> \/ TooFresh(blocks[1], depth, height)
    THEN {[blocks |-> blocks, log |-> log]}
    ELSE {[blocks |-> Drop(blocks),
           log |-> Append(log, [index |-> blocks[1].index, hash |-> blocks[1].hash,
                                at |-> blocks[1].index, header |-> header,
                                report |-> Report(header, blocks[1])])] :
              header \in Headers}

\* The loop of Shift; every lookup may return any header.  log collects,
\* per dropped block, the number looked up, the header and the message.
RECURSIVE ShiftLoop(_, _, _, _)
ShiftLoop(blocks, depth, height, log) ==
    IF blocks = << >> \/ TooFresh(blocks[1], depth, height)
    THEN {[blocks |-> blocks, log |-> log]}
    ELSE UNION {ShiftLoop(Drop(blocks), depth, height,
                          Append(log, [index |-> blocks[1].index, hash |-> blocks[1].hash,
                                       at |-> blocks[1].index, header |-> header,
                                       report |-> Report(header, blocks[1])])) :
                    header \in Headers}

Shift(tracker, height) ==
    {[tracker EXCEPT !.blocks = r.blocks, !.log = r.log] :
        r \in ShiftLoop(tracker.blocks, tracker.depth, height, << >>)}

\* Faulty variant: the block is appended, shifting is left to the caller.
InsertNoShift(tracker, index, hash) ==
    {[tracker EXCEPT !.blocks = Linked(@, <<[index |-> index, hash |-> hash]>>), !.log = << >>]}

\* Faulty variant: the block is appended before the old ones are shifted out.
InsertThenShift(tracker, index, hash) ==
    Shift([tracker EXCEPT !.blocks = Linked(@, <<[index |-> index, hash |-> hash]>>)], index)

\* set.Shift(index), then the new item is linked in.
Insert(tracker, index, hash) ==
    {[r EXCEPT !.blocks = Linked(@, <<[index |-> index, hash |-> hash]>>)] : r \in Shift(tracker, index)}

\* newUnconfirmedBlocks(chain, depth): blocks is nil.
newUnconfirmedBlocks(depth) ==
    [made |-> TRUE, depth |-> depth, blocks |-> << >>, log |-> << >>,
     call |-> [op |-> "newUnconfirmedBlocks", index |-> 0, hash |-> 0],
     before |-> << >>, top |-> 0, pending |-> << >>]

\* top is kept for the miner's calls only: one more than the number of the
\* last block it inserted.  pending holds the blocks of the Insert calls that
\* are back from set.Shift(index) and have not yet taken the lock to append.
\* No tracker has been made.
NoTracker == [newUnconfirmedBlocks(0) EXCEPT !.made = FALSE, !.call.op = "none"]

\* A slice held by a snapshot: the candidates, or a committee of one term.
Slot(field, term) == [field |-> field, term |-> term]

\* candidates := s.Candidates; return candidates: the slice of the snapshot.
candidates(snap) ==
    [val |-> MapSet(EmptyMap, Slot("Candidates", 0), snap.Candidates),
     shares |-> {Slot("Candidates", 0)}]

\* recentSigners, recentProposers, recentValidators: a new map, filled with
\* the slices of the snapshot's map.
RecentMap(snap, field) ==
    LET slots == {Slot(field, term) : term \in DOMAIN snap[field]}
    IN [val |-> [slot \in slots |-> snap[field][slot.term]], shares |-> slots]

\* getRecentSigners, getRecentProposers, getRecentValidators:
\* signers, ok := s.RecentSigners[term]; nil if !ok, else the slice itself.
RecentSlice(snap, field, term) ==
    IF term \in DOMAIN snap[field]
    THEN [val |-> MapSet(EmptyMap, Slot(field, term), snap[field][term]),
          shares |-> {Slot(field, term)}]
    ELSE [val |-> EmptyMap, shares |-> {}]

\* The slices a returned value still has in common with the snapshot after
\* the setter op was called for term and left snap: the setter stores a
\* slice it has just made (ss := make(...); copy(ss, signers);
\* s.RecentSigners[term] = ss) and deletes the entry of an old term.
StillShared(shares, snap, op, term) ==
    LET replaced ==
            CASE op = "setCandidates" -> {Slot("Candidates", 0)}
              [] op = "setRecentSigners" -> {Slot("RecentSigners", term)}
              [] op = "setRecentProposers" -> {Slot("RecentProposers", term)}
              [] op = "setRecentValidators" -> {Slot("RecentValidators", term)}
              [] OTHER -> {}
    IN {slot \in shares :
           /\ slot \notin replaced
           /\ slot.field = "Candidates" \/ slot.term \in DOMAIN snap[slot.field]}

\* slice[i] = address, seen through the snapshot.
WriteThrough(snap, slot, i, address) ==
    IF slot.field = "Candidates"
    THEN [snap EXCEPT !.Candidates[i] = address]
    ELSE [snap EXCEPT ![slot.field][slot.term][i] = address]

NoGot == [getter |-> "none", val |-> EmptyMap, shares |-> {}]

\* No header is being applied, the reader has read nothing.  pairs holds the
\* (number, hash) of the snapshot at construction and of every header handed
\* to applyHeader.
NoConc ==
    [pc |-> "idle", header |-> [Number |-> 0, Hash |-> 0], pairs |-> {<<0, 0>>},
     number |-> << >>, fresh |-> FALSE, pair |-> << >>]

NoLoad == [hash |-> 0, snap |-> << >>, config |-> << >>, err |-> ErrNil]

NoQuery ==
    [op |-> "none", n |-> 0, a |-> 0, num |-> 0, ok |-> FALSE,
     list |-> << >>, err |-> ErrNil]

\* ------------------------------------------------------------ the machine
\* s := newSnapshot(config, 0, hash, seedSigners); nothing else has run.
Started ==
    /\ convOverflow \in {UintMod \div 2, UintMod - 1}
    /\ s = newSnapshot(0, 0, seedSigners)
    /\ pre = s
    /\ hdrs = << >>
    /\ ret = << >>
    /\ same = FALSE
    /\ err = ErrNil
    /\ trace = << >>
    /\ q = NoQuery
    /\ last = "newSnapshot"
    /\ db = EmptyMap
    /\ stored = EmptyMap
    /\ loaded = NoLoad
    /\ conc = NoConc
    /\ got = NoGot
    /\ set = NoTracker

Init ==
    /\ config \in Configs
    /\ seedSigners \in Committees(config.TermLen)
    /\ Started

\* Configurations whose TermLen is the length of the candidate roster, or one
\* more; the seed committee is the roster, with one more address for the
\* longer term.
InitRoster ==
    /\ config \in {[TermLen |-> Len(DefaultCandidates) + more, ViewLen |-> vl,
                     MaxInitBlockNumber |-> k * (Len(DefaultCandidates) + more) * vl] :
                        more \in 0..1, vl \in 1..MaxViewLen, k \in 0..MaxInitTerms}
    /\ seedSigners = SubSeq(Append(DefaultCandidates, DefaultCandidates[1] + 1),
                            1, config.TermLen)
    /\ Started

\* The configuration and the build do not change.
Given == UNCHANGED <<config, convOverflow, seedSigners, set>>

\* Nor does the database under the operations that are not handed it.
Fixed == Given /\ UNCHANGED <<db, stored, loaded, conc, got>>

NoCall ==
    /\ pre' = s'
    /\ hdrs' = << >>
    /\ ret' = << >>
    /\ same' = FALSE
    /\ err' = ErrNil
    /\ trace' = << >>

\* The caller has taken the result of its previous call.
Ready == last \notin {"apply", "query"}

\* snap, err := s.apply(headers)
DoApply ==
    /\ Ready
    /\ \E cpy \in Copies(s), headers \in HeaderListsFrom(s.Number, MaxBatch) :
        LET r == Apply(s, headers, cpy)
        IN /\ pre' = s
           /\ hdrs' = headers
           /\ ret' = r.ret
           /\ same' = ReturnsReceiver(headers)
           /\ err' = r.err
           /\ trace' = r.trace
           /\ s' = r.recv
           /\ q' = NoQuery
           /\ last' = "apply"
           /\ Fixed

Answer(rec) ==
    /\ Ready
    /\ q' = rec
    /\ last' = "query"
    /\ s' = s
    /\ NoCall
    /\ Fixed

QueryArgs == [n : 0..MaxQueryNum, a : QueryAddrs]

DoTermOf ==
    \E n \in 0..MaxQueryNum :
        Answer([NoQuery EXCEPT !.op = "TermOf", !.n = n, !.num = TermOf(n)])

DoFutureTermOf ==
    \E n \in 0..MaxQueryNum :
        Answer([NoQuery EXCEPT !.op = "FutureTermOf", !.n = n, !.num = FutureTermOf(n)])

DoProposersOf ==
    \E n \in 0..MaxQueryNum :
        Answer([NoQuery EXCEPT !.op = "ProposersOf", !.n = n, !.list = ProposersOf(s, n)])

DoValidatorsOf ==
    \E n \in 0..MaxQueryNum :
        Answer([NoQuery EXCEPT !.op = "ValidatorsOf", !.n = n, !.list = ValidatorsOf(s, n)])

DoFutureProposersOf ==
    \E n \in 0..MaxQueryNum :
        Answer([NoQuery EXCEPT !.op = "FutureProposersOf", !.n = n,
                               !.list = FutureProposersOf(s, n)])

DoIsProposerOf ==
    \E x \in QueryArgs :
        LET r == IsProposerOf(s, x.a, x.n)
        IN Answer([NoQuery EXCEPT !.op = "IsProposerOf", !.n = x.n, !.a = x.a,
                                  !.ok = r.ok, !.err = r.err])

DoIsLeaderOf ==
    \E x \in QueryArgs :
        LET r == IsLeaderOf(s, x.a, x.n)
        IN Answer([NoQuery EXCEPT !.op = "IsLeaderOf", !.n = x.n, !.a = x.a,
                                  !.ok = r.ok, !.err = r.err])

DoInturnOf ==
    \E x \in QueryArgs :
        Answer([NoQuery EXCEPT !.op = "InturnOf", !.n = x.n, !.a = x.a,
                               !.ok = InturnOf(s, x.n, x.a)])

DoIsValidatorOf ==
    \E x \in QueryArgs :
        Answer([NoQuery EXCEPT !.op = "IsValidatorOf", !.n = x.n, !.a = x.a,
                               !.ok = IsValidatorOf(s, x.a, x.n)])

DoIsFutureProposerOf ==
    \E x \in QueryArgs :
        Answer([NoQuery EXCEPT !.op = "IsFutureProposerOf", !.n = x.n, !.a = x.a,
                               !.ok = IsFutureProposerOf(s, x.a, x.n)])

\* s.setRecentProposers(term, proposers), called on the snapshot directly.
DoSetRecentProposers ==
    \E term \in 0..MaxSetTerm, proposers \in Committees(TermLen) :
        /\ Ready
        /\ s' = setRecentProposers(s, term, proposers)
        /\ q' = NoQuery
        /\ last' = "setRecentProposers"
        /\ NoCall
        /\ Fixed

\* The caller takes the result: after a successful apply it goes on with the
\* returned snapshot, otherwise with the one it had.
Resume ==
    /\ ~Ready
    /\ s' = IF last = "apply" /\ err = ErrNil THEN ret[1] ELSE s
    /\ q' = NoQuery
    /\ last' = "idle"
    /\ NoCall
    /\ Fixed

\* Header application from the genesis snapshot.
Next == DoApply \/ Resume

Spec == Init /\ [][Next]_vars

\* snap, err := s.apply([]*types.Header{next}): the chain grows by one block.
DoApplyNext ==
    /\ Ready
    /\ s.Number < MaxHeight
    /\ \E cpy \in Copies(s), hash \in HashSet :
        LET headers == <<[Number |-> UAdd(s.Number, 1), Hash |-> hash]>>
            r == Apply(s, headers, cpy)
        IN /\ pre' = s
           /\ hdrs' = headers
           /\ ret' = r.ret
           /\ same' = ReturnsReceiver(headers)
           /\ err' = r.err
           /\ trace' = r.trace
           /\ s' = r.recv
           /\ q' = NoQuery
           /\ last' = "apply"
           /\ Fixed

\* A chain applied block by block from the genesis snapshot.
NextChain == DoApplyNext \/ Resume

SpecChain == Init /\ [][NextChain]_vars

\* The same, with terms as long as the candidate roster and longer.
SpecRoster == InitRoster /\ [][NextChain]_vars

\* A setter called on the snapshot the caller holds.
Set(snap, op) ==
    /\ Ready
    /\ s' = snap
    /\ q' = NoQuery
    /\ last' = op
    /\ loaded' = NoLoad
    /\ got' = [got EXCEPT !.shares = StillShared(@, snap, op, Term(s))]
    /\ UNCHANGED <<db, stored, conc>>
    /\ NoCall
    /\ Given

DoSetNumber ==
    \E number \in SetNumbers : Set(setNumber(s, number), "setNumber")

DoSetCandidates == Set(setCandidates(s, DefaultCandidates), "setCandidates")

\* s.setRecentProposers(s.Term(), proposers)
DoSetTermProposers ==
    Set(setRecentProposers(s, Term(s), OtherCommittee), "setRecentProposers")

\* s.setRecentValidators(s.Term(), validators)
DoSetTermValidators ==
    Set(setRecentValidators(s, Term(s), seedSigners), "setRecentValidators")

\* err := s.store(db)
DoStore ==
    /\ Ready
    /\ db' = store(s, db)
    /\ stored' = MapSet(stored, Key(s.Hash), s)
    /\ loaded' = NoLoad
    /\ s' = s
    /\ q' = NoQuery
    /\ last' = "store"
    /\ UNCHANGED <<conc, got>>
    /\ NoCall
    /\ Given

\* snap, err := loadSnapshot(config, db, hash)
DoLoad ==
    \E hash \in HashSet :
        /\ Ready
        /\ loaded' = loadSnapshot(config, db, hash)
        /\ UNCHANGED <<db, stored, conc, got>>
        /\ s' = s
        /\ q' = NoQuery
        /\ last' = "load"
        /\ NoCall
        /\ Given

\* Snapshots written through their setters, stored and loaded.
NextStore ==
    \/ DoSetNumber
    \/ DoSetCandidates
    \/ DoSetTermProposers
    \/ DoSetTermValidators
    \/ DoStore
    \/ DoLoad

SpecStore == Init /\ [][NextStore]_vars

\* snap, err := s.apply(headers) with a list apply accepts.  A run ends with
\* the write to a returned snapshot: nothing is applied after it.
DoApplyAccepted ==
    /\ Ready
    /\ last # "mutate"
    /\ \E cpy \in Copies(s), headers \in ChainsFrom(s.Number, MaxBatch) :
        LET r == Apply(s, headers, cpy)
        IN /\ pre' = s
           /\ hdrs' = headers
           /\ ret' = r.ret
           /\ same' = ReturnsReceiver(headers)
           /\ err' = r.err
           /\ trace' = r.trace
           /\ s' = r.recv
           /\ q' = NoQuery
           /\ last' = "apply"
           /\ Fixed

\* The caller sets something on the snapshot apply returned.  When that
\* pointer is the receiver, the receiver is what gets written.
DoMutateReturned ==
    /\ last = "apply"
    /\ err = ErrNil
    /\ \E m \in {setNumber(ret[1], number) : number \in SetNumbers}
                  \cup {setHash(ret[1], hash) : hash \in HashSet}
                  \cup {setCandidates(ret[1], << >>)}
                  \cup {setRecentSigners(ret[1], Term(ret[1]), OtherCommittee)} :
        /\ ret' = <<m>>
        /\ s' = IF same THEN m ELSE s
    /\ last' = "mutate"
    /\ UNCHANGED <<pre, hdrs, same, err, trace, q>>
    /\ Fixed

\* Accepted header lists, and writes to the snapshots apply returned.
NextAlias == DoApplyAccepted \/ DoMutateReturned \/ Resume

SpecAlias == Init /\ [][NextAlias]_vars

\* cpy := s.copy(), on a snapshot the caller holds.
DoCopy ==
    /\ Ready
    /\ \E cpy \in Copies(s) : ret' = <<cpy>>
    /\ pre' = s
    /\ hdrs' = << >>
    /\ same' = FALSE
    /\ err' = ErrNil
    /\ trace' = << >>
    /\ s' = s
    /\ q' = NoQuery
    /\ last' = "copy"
    /\ Fixed

\* One goroutine runs s.applyHeader(header) while another reads s.  Each
\* setter and each getter takes s.lock for itself; applyHeader takes none,
\* so the steps below are the lock sections, in program order.
Step(snap, c) ==
    /\ s' = snap
    /\ conc' = c
    /\ last' = "applyHeader"
    /\ q' = NoQuery
    /\ NoCall
    /\ Given
    /\ UNCHANGED <<db, stored, loaded, got>>

\* s.setNumber(header.Number.Uint64())
DoHeaderSetNumber ==
    /\ conc.pc = "idle"
    /\ s.Number < MaxConcHeight
    /\ \E hash \in HashSet :
        LET header == [Number |-> UAdd(s.Number, 1), Hash |-> hash]
        IN Step(setNumber(s, header.Number),
                [conc EXCEPT !.pc = "setHash", !.header = header,
                             !.pairs = @ \cup {<<header.Number, header.Hash>>},
                             !.fresh = FALSE])

\* s.setHash(header.Hash())
DoHeaderSetHash ==
    /\ conc.pc = "setHash"
    /\ Step(setHash(s, conc.header.Hash),
            [conc EXCEPT !.pc = "update", !.fresh = FALSE])

\* updateCandidates, updateRpts and, at a checkpoint, updateSigners.
DoHeaderUpdate ==
    /\ conc.pc = "update"
    /\ Step(applyHeader(s, conc.header).snap,
            [conc EXCEPT !.pc = "idle", !.fresh = FALSE])

\* number := s.number()
DoReadNumber ==
    /\ conc.pc \in {"idle", "setHash", "update"}
    /\ Step(s, [conc EXCEPT !.number = <<s.Number>>, !.fresh = TRUE, !.pair = << >>])

\* hash := s.hash(), straight after number(): no write came in between.
DoReadHash ==
    /\ conc.fresh
    /\ Step(s, [conc EXCEPT !.fresh = FALSE, !.pair = <<<<conc.number[1], s.Hash>>>>])

\* applyHeader on a snapshot that is being read.
NextConc ==
    \/ DoHeaderSetNumber
    \/ DoHeaderSetHash
    \/ DoHeaderUpdate
    \/ DoReadNumber
    \/ DoReadHash

SpecConc == Init /\ [][NextConc]_vars

\* The caller keeps what a getter of s returned; one call is followed.
Get(getter, r) ==
    /\ Ready
    /\ got = NoGot
    /\ got' = [getter |-> getter, val |-> r.val, shares |-> r.shares]
    /\ s' = s
    /\ q' = NoQuery
    /\ last' = "get"
    /\ NoCall
    /\ Given
    /\ UNCHANGED <<db, stored, loaded, conc>>

RecentFields == {"RecentSigners", "RecentProposers", "RecentValidators"}

DoCandidates ==
    /\ got = NoGot
    /\ Get("candidates", candidates(s))

\* m := s.recentSigners(), s.recentProposers() or s.recentValidators()
DoRecentMap ==
    \E field \in RecentFields : Get(field, RecentMap(s, field))

\* c := s.getRecentSigners(term), getRecentProposers(term) or
\* getRecentValidators(term), for the snapshot's term and the one after.
DoGetRecent ==
    \E field \in RecentFields, term \in {Term(s), UAdd(Term(s), 1)} :
        Get("getRecent", RecentSlice(s, field, term))

\* The caller writes the first element of a slice it was returned:
\* slice[0] = x, x an address of no roster.
DoWriteReturned ==
    /\ Ready
    /\ \E slot \in DOMAIN got.val, x \in QueryAddrs \ SomeAddrs :
        /\ Len(got.val[slot]) >= 1
        /\ got.val[slot][1] # x
        /\ got' = [got EXCEPT !.val[slot][1] = x]
        /\ s' = IF slot \in got.shares THEN WriteThrough(s, slot, 1, x) ELSE s
    /\ pre' = s
    /\ hdrs' = << >> /\ ret' = << >> /\ same' = FALSE /\ err' = ErrNil /\ trace' = << >>
    /\ q' = NoQuery
    /\ last' = "write"
    /\ Given
    /\ UNCHANGED <<db, stored, loaded, conc>>

\* The caller puts a slice of its own into a map it was returned: m[term] = x.
DoPutReturned ==
    /\ Ready
    /\ got.getter \in RecentFields
    /\ \E slot \in DOMAIN got.val :
        /\ got.val[slot] # << >>
        /\ got' = [got EXCEPT !.val[slot] = << >>, !.shares = @ \ {slot}]
    /\ pre' = s
    /\ hdrs' = << >> /\ ret' = << >> /\ same' = FALSE /\ err' = ErrNil /\ trace' = << >>
    /\ s' = s
    /\ q' = NoQuery
    /\ last' = "put"
    /\ Given
    /\ UNCHANGED <<db, stored, loaded, conc>>

\* The getters of a snapshot, its setters and copy, and a caller who writes
\* into what it was returned.
NextGetter ==
    \/ DoSetCandidates
    \/ DoSetTermProposers
    \/ DoSetTermValidators
    \/ DoCandidates
    \/ DoRecentMap
    \/ DoGetRecent
    \/ DoCopy
    \/ DoWriteReturned
    \/ DoPutReturned

SpecGetter == Init /\ [][NextGetter]_vars

\* Lookups on snapshots that hold committees for some terms and none for
\* the others.
NextLookup ==
    \/ DoSetTermProposers
    \/ DoSetTermValidators
    \/ DoProposersOf
    \/ DoValidatorsOf
    \/ DoFutureProposersOf
    \/ DoIsValidatorOf
    \/ DoIsFutureProposerOf
    \/ DoInturnOf
    \/ Resume

SpecLookup == Init /\ [][NextLookup]_vars

\* The tracker does not read the snapshot: one snapshot stands beside it.
InitUnconfirmed ==
    /\ Init
    /\ config = [TermLen |-> 1, ViewLen |-> 1, MaxInitBlockNumber |-> 0]
    /\ convOverflow = UintMod - 1
    /\ seedSigners = <<DefaultCandidates[1]>>

\* A call of the tracker: the snapshot is left alone.
Called(tracker, op, index, hash) ==
    /\ set' = [tracker EXCEPT !.call = [op |-> op, index |-> index, hash |-> hash],
                              !.before = set.blocks]
    /\ last' = op
    /\ UNCHANGED <<config, convOverflow, seedSigners, s, pre, hdrs, ret, same, err,
                   trace, q, db, stored, loaded, conc, got>>

\* set := newUnconfirmedBlocks(chain, depth)
DoNewUnconfirmedBlocks ==
    /\ ~set.made
    /\ \E depth \in 0..MaxDepth :
        Called(newUnconfirmedBlocks(depth), "newUnconfirmedBlocks", 0, 0)

\* set.Insert(index, hash), for any block number.
DoInsert ==
    /\ set.made
    /\ Len(set.blocks) < MaxEntries
    /\ \E index \in 0..MaxIndex, hash \in HashSet :
        \E tracker \in Insert(set, index, hash) : Called(tracker, "Insert", index, hash)

\* set.Insert(index, hash) as the miner calls it: for a block above every
\* block inserted before.
DoInsertNext ==
    /\ set.made
    /\ \E index \in set.top..MaxIndex, hash \in HashSet :
        \E tracker \in Insert(set, index, hash) :
            Called([tracker EXCEPT !.top = index + 1], "Insert", index, hash)

\* set.Shift(height)
DoShift ==
    /\ set.made
    /\ \E height \in 0..(MaxIndex + MaxDepth) :
        \E tracker \in Shift(set, height) : Called(tracker, "Shift", height, 0)

\* A goroutine in set.Insert(index, hash): set.Shift(index) has returned and
\* unlocked (line 51), the lock of line 61 is not yet taken.
DoInsertShift ==
    /\ set.made
    /\ Len(set.blocks) + Len(set.pending) < MaxEntries
    /\ \E index \in 0..MaxIndex, hash \in HashSet :
        \E tracker \in Shift(set, index) :
            Called([tracker EXCEPT !.pending = Append(@, [index |-> index, hash |-> hash])],
                   "Insert:Shift", index, hash)

\* The goroutine takes the lock and links its item in (lines 61-68).
DoInsertAppend ==
    /\ set.made
    /\ \E i \in 1..Len(set.pending) :
        Called([set EXCEPT !.blocks = Linked(@, <<set.pending[i]>>),
                           !.log = << >>,
                           !.pending = SubSeq(@, 1, i - 1) \o SubSeq(@, i + 1, Len(@))],
               "Insert:append", set.pending[i].index, set.pending[i].hash)

\* The tracker called from several goroutines: every step is one section
\* under set.lock.
NextShared == DoNewUnconfirmedBlocks \/ DoInsertShift \/ DoInsertAppend \/ DoShift

SpecShared == InitUnconfirmed /\ [][NextShared]_vars

\* The tracker under Insert, in any order of block numbers, and Shift.
NextUnconfirmed == DoNewUnconfirmedBlocks \/ DoInsert \/ DoShift

SpecUnconfirmed == InitUnconfirmed /\ [][NextUnconfirmed]_vars

\* The tracker under Insert with rising block numbers, and Shift.
NextMined == DoNewUnconfirmedBlocks \/ DoInsertNext \/ DoShift

SpecMined == InitUnconfirmed /\ [][NextMined]_vars

\* The committee queries, on snapshots whose proposer committees were set.
NextQuery ==
    \/ DoSetRecentProposers
    \/ DoTermOf
    \/ DoFutureTermOf
    \/ DoProposersOf
    \/ DoValidatorsOf
    \/ DoFutureProposersOf
    \/ DoIsProposerOf
    \/ DoIsLeaderOf
    \/ DoInturnOf
    \/ Resume

SpecQuery == Init /\ [][NextQuery]_vars


\* ================================================================ properties
Applied == last = "apply" /\ err = ErrNil /\ Len(hdrs) > 0

TermBlocks == config.TermLen * config.ViewLen

Contiguous == \A i \in 2..Len(hdrs) : hdrs[i].Number = hdrs[i - 1].Number + 1
StartsAfterPre == hdrs[1].Number = pre.Number + 1

Mappings(snap) == <<snap.RecentSigners, snap.RecentProposers, snap.RecentValidators>>

\* C1: after a successful apply of a non-empty header list the returned
\* snapshot carries the number and the hash of the last header of the list.
C1_NumberHashOfLastHeader ==
    Applied => /\ ret[1].Number = hdrs[Len(hdrs)].Number
               /\ ret[1].Hash = hdrs[Len(hdrs)].Hash

C1_Witness ==
    /\ Applied
    /\ Len(hdrs) = 2
    /\ hdrs[1].Hash # hdrs[2].Hash

\* C2: apply on a snapshot with number N fails with InvalidChain and returns
\* no snapshot when some header does not follow its predecessor by one or the
\* first header is not N + 1, and passes exactly when both conditions hold.
C2_InvalidChainExactly ==
    (last = "apply" /\ Len(hdrs) > 0) =>
        IF Contiguous /\ StartsAfterPre
        THEN err = ErrNil /\ Len(ret) = 1
        ELSE err = ErrInvalidChain /\ ret = << >>

C2_Witness ==
    /\ last = "apply"
    /\ Len(hdrs) = 2
    /\ Contiguous
    /\ ~StartsAfterPre
    /\ err = ErrInvalidChain

\* C3: when apply fails, the snapshot it was called on is unchanged and no
\* snapshot (in particular none holding a prefix of the batch) is returned.
C3_FailureLeavesSnapshot ==
    (last = "apply" /\ err # ErrNil) => s = pre /\ ret = << >>

C3_Witness ==
    /\ last = "apply"
    /\ err # ErrNil
    /\ Len(hdrs) = 2
    /\ StartsAfterPre
    /\ DOMAIN pre.RecentSigners # {}

\* C4: applying a header list to a snapshot has one outcome: whatever order
\* the copy walks the committee maps in, the returned snapshot (number, hash,
\* candidates, committee mappings) and the error are the same.
C4_ApplyDeterministic ==
    last = "apply" =>
        \A cpy \in Copies(pre) :
            /\ Apply(pre, hdrs, cpy).ret = ret
            /\ Apply(pre, hdrs, cpy).err = err

C4_Witness ==
    /\ Applied
    /\ Cardinality(DOMAIN pre.RecentSigners) >= 3
    /\ IsCheckPoint(hdrs[1].Number, TermLen, ViewLen)
    /\ Cardinality(DOMAIN ret[1].RecentSigners) > Cardinality(DOMAIN pre.RecentSigners)

\* C5: after a checkpoint header n is applied, the committee elected from the
\* current reputations with the seed of that header's hash is the committee
\* FutureProposersOf(n) returns on the resulting snapshot.
C5_ElectedIsFutureProposers ==
    (Applied /\ (hdrs[Len(hdrs)].Number - 1) % TermBlocks = 0) =>
        FutureProposersOf(ret[1], hdrs[Len(hdrs)].Number) =
            Elect(updateRpts(ret[1], hdrs[Len(hdrs)]),
                  Int64(hdrs[Len(hdrs)].Hash), TermLen)

\* C6: applying a header whose number is not a checkpoint leaves every
\* committee mapping as it was; only number, hash and candidates may change.
C6_OnlyCheckpointsElect ==
    Applied =>
        \A i \in 1..Len(hdrs) :
            (hdrs[i].Number - 1) % TermBlocks # 0 =>
                /\ Mappings(trace[i + 1]) = Mappings(trace[i])
                /\ trace[i + 1].Number = hdrs[i].Number
                /\ trace[i + 1].Hash = hdrs[i].Hash

C6_Witness ==
    /\ Applied
    /\ \E i \in 1..Len(hdrs) :
          /\ (hdrs[i].Number - 1) % TermBlocks # 0
          /\ trace[i + 1].Hash # trace[i].Hash
          /\ Cardinality(DOMAIN trace[i].RecentSigners) >= 2
          /\ ifStartElection(trace[i + 1])

\* C7: TermOf(0) = 0 and TermOf(n) = (n - 1) div (TermLen * ViewLen) for
\* n > 0, so TermOf(k * TermLen * ViewLen) = k - 1 and
\* TermOf(k * TermLen * ViewLen + 1) = k for k >= 1; FutureTermOf(n) is
\* TermOf(n) + 3.
C7_TermArithmetic ==
    /\ q.op = "TermOf" =>
          /\ q.n = 0 => q.num = 0
          /\ q.n > 0 => q.num = (q.n - 1) \div TermBlocks
          /\ \A k \in 1..MaxQueryNum :
                /\ q.n = k * TermBlocks => q.num = k - 1
                /\ q.n = k * TermBlocks + 1 => q.num = k
    /\ q.op = "FutureTermOf" =>
          q.num = (IF q.n = 0 THEN 0 ELSE (q.n - 1) \div TermBlocks) + 3

C7_Witness ==
    /\ q.op = "TermOf"
    /\ TermBlocks = 2
    /\ q.n = 2 * TermBlocks
    /\ q.num = 1

\* The proposer committee of the term of the block the query asked about.
AskedCommittee ==
    LET t == IF q.n = 0 THEN 0 ELSE (q.n - 1) \div TermBlocks
    IN IF t \in DOMAIN s.RecentProposers THEN s.RecentProposers[t] ELSE << >>

AskedIsMember == \E i \in 1..Len(AskedCommittee) : AskedCommittee[i] = q.a
AskedView == (CHOOSE i \in 1..Len(AskedCommittee) : AskedCommittee[i] = q.a) - 1
AskedSlot == ((q.n - 1) % TermBlocks) \div config.ViewLen

\* C8: for n > 0 and a member a of the proposer committee of TermOf(n),
\* IsProposerOf(a, n) is true iff a's view index equals
\* ((n - 1) mod (TermLen * ViewLen)) div ViewLen; for a non-member
\* IsProposerOf fails with NotInCommittee and InturnOf(n, a) is false.
C8_InturnRule ==
    q.n > 0 =>
        /\ q.op = "IsProposerOf" =>
              IF AskedIsMember
              THEN q.err = ErrNil /\ (q.ok <=> AskedView = AskedSlot)
              ELSE q.err = ErrProposerNotInCommittee /\ ~q.ok
        /\ (q.op = "InturnOf" /\ ~AskedIsMember) => ~q.ok

C8_Witness ==
    /\ q.op = "IsProposerOf"
    /\ q.n > 1
    /\ config.ViewLen = 2
    /\ AskedIsMember
    /\ AskedView = 1
    /\ q.ok

\* C9: newSnapshot(config, 0, hash, seedSigners) installs seedSigners at term
\* 0 of the proposer and of the validator mapping: ProposersOf(0) and
\* ValidatorsOf(0) return seedSigners.
C9_GenesisSeedsCommittees ==
    last = "newSnapshot" =>
        /\ ProposersOf(s, 0) = seedSigners
        /\ ValidatorsOf(s, 0) = seedSigners

\* C10: for every address a, IsLeaderOf(a, 0) and IsProposerOf(a, 0) fail
\* with GenesisHasNoLeader, also for a member of the term-0 committee, and
\* InturnOf(0, a) is false.
C10_GenesisHasNoLeader ==
    q.n = 0 =>
        /\ q.op \in {"IsLeaderOf", "IsProposerOf"} =>
              q.err = ErrGenesisBlockNumber /\ ~q.ok
        /\ q.op = "InturnOf" => ~q.ok

C10_Witness ==
    /\ q.op = "IsProposerOf"
    /\ q.n = 0
    /\ AskedIsMember
    /\ AskedView = 0
    /\ q.err = ErrGenesisBlockNumber

\* C11: from the genesis snapshot at block 0 with seed committee S, once the
\* headers 1..TermLen*ViewLen are applied, for every block n of term 0
\* InturnOf(n, S[(n - 1) div ViewLen]) is true and InturnOf(n, b) is false
\* for every other member b of S.
C11_SeedCommitteeInTurn ==
    (Applied /\ ret[1].Number = TermBlocks) =>
        \A n \in 1..TermBlocks :
            \A i \in 1..Len(seedSigners) :
                InturnOf(ret[1], n, seedSigners[i]) <=> i = (n - 1) \div ViewLen + 1

\* C12 as stated: for every block number n, 0 included, FutureProposersOf(n)
\* is the committee ProposersOf returns for block n + 3 * TermLen * ViewLen.
C12_FutureIsThreeTermsOn ==
    q.op = "FutureProposersOf" =>
        q.list = ProposersOf(s, q.n + TermGapBetweenElectionAndMining * TermBlocks)

\* C12, amended: for every block number n > 0, FutureProposersOf(n) is the
\* committee ProposersOf returns for block n + 3 * TermLen * ViewLen; for
\* block 0 it is the committee of term 3, whose first block is
\* 3 * TermLen * ViewLen + 1.
C12_FutureIsThreeTermsOnAfterGenesis ==
    q.op = "FutureProposersOf" =>
        /\ q.n > 0 =>
              q.list = ProposersOf(s, q.n + TermGapBetweenElectionAndMining * TermBlocks)
        /\ q.n = 0 =>
              q.list = ProposersOf(s, TermGapBetweenElectionAndMining * TermBlocks + 1)

C12_Witness ==
    /\ q.op = "FutureProposersOf"
    /\ q.n > 1
    /\ q.list # << >>
    /\ ProposersOf(s, q.n) # << >>
    /\ ProposersOf(s, q.n) # q.list

\* Every snapshot the model holds: the caller's, the receiver of the last
\* apply, its result, and the copy as it stood after each header.
Snapshots ==
    {s, pre} \cup {ret[i] : i \in 1..Len(ret)} \cup {trace[i] : i \in 1..Len(trace)}

MapSizes(snap) ==
    {Cardinality(DOMAIN Mappings(snap)[i]) : i \in 1..3}

\* C13: after any sequence of genesis construction, header applications and
\* copies, each committee mapping of a snapshot (legacy signers, proposers,
\* validators) holds at most MaxRecentTerms = 5 terms.
C13_AtMostFiveTerms ==
    \A snap \in Snapshots : \A n \in MapSizes(snap) : n <= MaxSizeOfRecentSigners

C13_Witness ==
    /\ Applied
    /\ Cardinality(DOMAIN pre.RecentSigners) = MaxSizeOfRecentSigners
    /\ Cardinality(DOMAIN ret[1].RecentSigners) = MaxSizeOfRecentSigners
    /\ DOMAIN ret[1].RecentSigners # DOMAIN pre.RecentSigners

\* C14: after a checkpoint header lying in term T >= MaxRecentTerms has been
\* applied, no committee mapping of the resulting snapshot contains a term
\* strictly smaller than T - MaxRecentTerms; the genesis term 0 is gone once
\* T exceeds MaxRecentTerms.
C14_OlderTermsEvicted ==
    (/\ Applied
     /\ IsCheckPoint(Last(hdrs).Number, TermLen, ViewLen)
     /\ TermOf(Last(hdrs).Number) >= MaxSizeOfRecentSigners) =>
        \A i \in 1..3 : \A t \in DOMAIN Mappings(ret[1])[i] :
            t >= TermOf(Last(hdrs).Number) - MaxSizeOfRecentSigners

Content(snap) ==
    <<snap.Number, snap.Hash, snap.Candidates, snap.RecentProposers,
      snap.RecentValidators>>

LoadedKey == Key(loaded.hash)

\* C16: store(db) followed by load(config, db, s.hash) returns a snapshot
\* equal to s on (number, hash, candidates, recentProposers,
\* recentValidators), with the given configuration attached.
C16_StoreLoadRoundTrip ==
    (/\ last = "load"
     /\ loaded.hash = s.Hash
     /\ LoadedKey \in DOMAIN stored
     /\ stored[LoadedKey] = s) =>
        /\ loaded.err = ErrNil
        /\ Len(loaded.snap) = 1
        /\ Content(loaded.snap[1]) = Content(s)
        /\ loaded.config = <<config>>

C16_Witness ==
    /\ last = "load"
    /\ loaded.hash = s.Hash
    /\ LoadedKey \in DOMAIN stored
    /\ stored[LoadedKey] = s
    /\ s.Number > 9
    /\ Len(s.Candidates) > 0
    /\ Cardinality(DOMAIN s.RecentProposers) = 2
    /\ Cardinality(DOMAIN s.RecentValidators) = 2
    /\ \E t \in DOMAIN s.RecentProposers : t > 9

\* C17: the persisted value does not follow the in-memory snapshot: after
\* store, setters called on the snapshot, and a load by the stored hash, the
\* loaded snapshot has the content the snapshot had when it was stored.
C17_StoredContentIsKept ==
    (last = "load" /\ LoadedKey \in DOMAIN stored) =>
        /\ loaded.err = ErrNil
        /\ Len(loaded.snap) = 1
        /\ Content(loaded.snap[1]) = Content(stored[LoadedKey])

C17_Witness ==
    /\ last = "load"
    /\ LoadedKey \in DOMAIN stored
    /\ stored[LoadedKey].Number # s.Number
    /\ stored[LoadedKey].Candidates # s.Candidates
    /\ stored[LoadedKey].RecentProposers # s.RecentProposers
    /\ DOMAIN stored[LoadedKey].RecentProposers # {}
    /\ Content(loaded.snap[1]) # Content(s)

\* C18: loadSnapshot for a hash under which nothing was ever stored returns
\* an error and no snapshot; it never changes the database; and a snapshot
\* it returns was stored under "dpor-" + hash before.
C18_LoadOnlyWhatWasStored ==
    [][last' = "load" =>
          /\ db' = db
          /\ Key(loaded'.hash) \notin DOMAIN stored =>
                loaded'.err # ErrNil /\ loaded'.snap = << >>
          /\ loaded'.snap # << >> =>
                /\ Key(loaded'.hash) \in DOMAIN stored
                /\ Content(loaded'.snap[1]) = Content(stored[Key(loaded'.hash)])]_vars

C18_Witness ==
    /\ last = "load"
    /\ LoadedKey \notin DOMAIN stored
    /\ DOMAIN stored # {}
    /\ loaded.err = ErrNotFound
    /\ loaded.snap = << >>

\* C19: applying an empty header list succeeds and returns a snapshot equal
\* by content (number, hash, candidates, committee mappings) to the snapshot
\* it was applied to, which is itself unchanged.
C19_EmptyApplyReturnsContent ==
    (last = "apply" /\ hdrs = << >>) =>
        /\ err = ErrNil
        /\ ret = <<pre>>
        /\ s = pre

C19_Witness ==
    /\ last = "apply"
    /\ hdrs = << >>
    /\ pre.Number > 1
    /\ Len(pre.Candidates) > 0
    /\ Cardinality(DOMAIN pre.RecentSigners) >= 3
    /\ ret = <<pre>>

\* C20: for every header list apply accepts, the empty list included,
\* setting the number, the hash, the candidates or a committee entry of the
\* snapshot apply returned changes nothing of the snapshot apply was called
\* on.
C20_ReturnedSnapshotIsDetached ==
    last = "mutate" => s = pre

\* C21: s.copy() has the number, the hash and the candidates of s, its
\* proposer mapping equals that of s, its validator mapping equals that of
\* s, and no proposer or validator committee is moved into another mapping.
C21_CopyKeepsEachMapping ==
    last = "copy" =>
        /\ ret[1].Number = pre.Number
        /\ ret[1].Hash = pre.Hash
        /\ ret[1].Candidates = pre.Candidates
        /\ ret[1].RecentProposers = pre.RecentProposers
        /\ ret[1].RecentValidators = pre.RecentValidators
        /\ ret[1].RecentSigners = pre.RecentSigners

\* What apply returns when the list is applied in two calls, cut after its
\* first k headers: every result the two copies allow, << >> on an error.
InTwoCalls(snap, headers, k) ==
    UNION {LET a == Apply(snap, SubSeq(headers, 1, k), c1)
           IN IF a.err # ErrNil THEN {<< >>}
              ELSE {Apply(a.ret[1], SubSeq(headers, k + 1, Len(headers)), c2).ret
                       : c2 \in Copies(a.ret[1])}
              : c1 \in Copies(snap)}

\* C22: for contiguous header lists A and B, applying B to the result of
\* applying A gives a snapshot equal by content to the one applying A ++ B
\* gives in one call.
C22_ApplyComposes ==
    Applied => \A k \in 0..Len(hdrs) : InTwoCalls(pre, hdrs, k) = {ret}

C22_Witness ==
    /\ Applied
    /\ Len(hdrs) = 2
    /\ Cardinality(DOMAIN pre.RecentSigners) >= 2
    /\ DOMAIN trace[2].RecentSigners # DOMAIN pre.RecentSigners
    /\ DOMAIN trace[3].RecentSigners # DOMAIN trace[2].RecentSigners
    /\ InTwoCalls(pre, hdrs, 1) = {ret}

\* C23: while a header is applied to a snapshot, a reader of that snapshot
\* never gets a number of one header with the hash of another, and the
\* numbers it reads one after the other never decrease.
C23_NoTornNumberHash ==
    /\ [](\A i \in 1..Len(conc.pair) : conc.pair[i] \in conc.pairs)
    /\ [][\A i \in 1..Len(conc.number) : \A j \in 1..Len(conc'.number) :
              conc'.number[j] >= conc.number[i]]_vars

\* C24: what a getter returns is a copy: a setter called on the snapshot
\* afterwards leaves the returned value as it was, and a write into the
\* returned value leaves the snapshot as it was.
C24_GettersReturnCopies ==
    /\ [](last \in {"write", "put"} => s = pre)
    /\ [][last' \notin {"get", "write", "put"} => got'.val = got.val]_vars

\* The term of the block a query asked about, and the term three terms on.
AskedTerm == IF q.n = 0 THEN 0 ELSE (q.n - 1) \div TermBlocks
AskedFutureTerm == AskedTerm + TermGapBetweenElectionAndMining

\* C25: a query about a block whose term has no stored committee answers
\* with the empty list (ProposersOf, ValidatorsOf, FutureProposersOf) or with
\* false (IsValidatorOf, IsFutureProposerOf, InturnOf), and no query changes
\* the snapshot: no entry is created in any mapping.
C25_UnknownTermIsEmpty ==
    /\ [](last = "query" =>
            /\ (q.op = "ProposersOf" /\ AskedTerm \notin DOMAIN s.RecentProposers)
                   => q.list = << >>
            /\ (q.op = "ValidatorsOf" /\ AskedTerm \notin DOMAIN s.RecentValidators)
                   => q.list = << >>
            /\ (q.op = "FutureProposersOf" /\ AskedFutureTerm \notin DOMAIN s.RecentProposers)
                   => q.list = << >>
            /\ (q.op = "IsValidatorOf" /\ AskedTerm \notin DOMAIN s.RecentValidators)
                   => ~q.ok
            /\ (q.op = "IsFutureProposerOf" /\ AskedFutureTerm \notin DOMAIN s.RecentProposers)
                   => ~q.ok
            /\ (q.op = "InturnOf" /\ AskedTerm \notin DOMAIN s.RecentProposers)
                   => ~q.ok)
    /\ [][last' = "query" => s' = s]_vars

\* IsValidatorOf was asked about a seed signer and the first block, on a
\* snapshot that holds proposers but no validators for term 0.
C25_Witness ==
    /\ last = "query"
    /\ q.op = "IsValidatorOf"
    /\ q.n = 1
    /\ q.a = seedSigners[1]
    /\ 0 \in DOMAIN s.RecentProposers
    /\ 0 \notin DOMAIN s.RecentValidators
    /\ ~q.ok

\* The block of the last Insert, and how many blocks at the front of a
\* tracker are old enough at a height: the longest run from the oldest on
\* with index + depth <= height.
Inserted == [index |-> set.call.index, hash |-> set.call.hash]

RECURSIVE FrontRun(_, _, _)
FrontRun(blocks, depth, height) ==
    IF blocks # << >> /\ blocks[1].index + depth <= height
    THEN 1 + FrontRun(Tail(blocks), depth, height)
    ELSE 0

Reported(kind) == {i \in 1..Len(set.log) : set.log[i].report = kind}

\* C26: on an empty tracker, Insert(i, h) followed by Shift(i + depth), the
\* retriever answering the lookup of i with a header of hash h, reports
\* canonical inclusion of (i, h) exactly once, reports no side fork and no
\* unknown block, and leaves the tracker empty.
C26_InsertThenShiftConfirms ==
    /\ (set.call.op = "Insert" /\ set.before = << >>) =>
           set.blocks = <<Inserted>> /\ set.log = << >>
    /\ (/\ set.call.op = "Shift"
        /\ Len(set.before) = 1
        /\ set.call.index = set.before[1].index + set.depth
        /\ \A i \in 1..Len(set.log) : set.log[i].header = <<set.before[1].hash>>) =>
           /\ set.blocks = << >>
           /\ Len(set.log) = 1
           /\ Reported("canonical") = {1}
           /\ set.log[1].index = set.before[1].index
           /\ set.log[1].hash = set.before[1].hash

C26_Witness ==
    /\ set.call.op = "Shift"
    /\ set.depth = 2
    /\ set.before = <<[index |-> 1, hash |-> 1]>>
    /\ set.call.index = 3
    /\ Reported("canonical") = {1}
    /\ set.blocks = << >>

\* C27: Shift(height) takes out the longest run of blocks from the oldest on
\* that have index + depth <= height, oldest first, and keeps the others in
\* their order; with depth 2, blocks 0 and 1 tracked and Shift(2), block 0
\* alone is looked up and block 1 stays.
C27_ShiftDropsFrontRun ==
    set.call.op = "Shift" =>
        LET k == FrontRun(set.before, set.depth, set.call.index)
        IN /\ set.blocks = SubSeq(set.before, k + 1, Len(set.before))
           /\ Len(set.log) = k
           /\ \A i \in 1..k : /\ set.log[i].index = set.before[i].index
                              /\ set.log[i].hash = set.before[i].hash

C27_Witness ==
    /\ set.call.op = "Shift"
    /\ set.depth = 2
    /\ set.before = <<[index |-> 0, hash |-> 0], [index |-> 1, hash |-> 1]>>
    /\ set.call.index = 2
    /\ Len(set.log) = 1
    /\ set.log[1].index = 0
    /\ set.blocks = <<[index |-> 1, hash |-> 1]>>

\* C28: every block that leaves the tracker is reported once, after one
\* lookup at its own number: as unknown when the retriever has no header, as
\* canonical when the header's hash is the block's, as a side fork when it is
\* another; the block is gone in each of the three cases.
C28_EachDroppedBlockReportedOnce ==
    set.call.op \in {"Insert", "Shift"} =>
        LET k == Len(set.log)
            kept == IF set.call.op = "Insert"
                    THEN SubSeq(set.blocks, 1, Len(set.blocks) - 1)
                    ELSE set.blocks
        IN /\ k <= Len(set.before)
           /\ kept = SubSeq(set.before, k + 1, Len(set.before))
           /\ \A i \in 1..k :
                  /\ set.log[i].index = set.before[i].index
                  /\ set.log[i].hash = set.before[i].hash
                  /\ set.log[i].at = set.before[i].index
                  /\ set.log[i].report =
                         (IF set.log[i].header = << >> THEN "unknown"
                          ELSE IF set.log[i].header[1] = set.before[i].hash THEN "canonical"
                          ELSE "side fork")

C28_Witness ==
    /\ set.call.op = "Shift"
    /\ Len(set.before) = 2
    /\ set.blocks = << >>
    /\ Reported("unknown") = {1}
    /\ Reported("side fork") = {2}

\* C29: Insert(index, hash) first takes out what Shift(index) would take out
\* and then puts (index, hash) in as the newest block; the block it puts in
\* is neither reported nor taken out by that call, and no block is left at
\* the front with index + depth <= index of the call.
C29_InsertShiftsThenAppends ==
    set.call.op = "Insert" =>
        LET k == FrontRun(set.before, set.depth, set.call.index)
        IN /\ \E r \in ShiftLoop(set.before, set.depth, set.call.index, << >>) :
                  set.log = r.log /\ set.blocks = Append(r.blocks, Inserted)
           /\ Len(set.log) = k
           /\ set.blocks = Append(SubSeq(set.before, k + 1, Len(set.before)), Inserted)
           /\ Len(set.blocks) > 1 => set.blocks[1].index + set.depth > set.call.index

C29_Witness ==
    /\ set.call.op = "Insert"
    /\ set.depth = 0
    /\ Len(set.before) = 1
    /\ Len(set.log) = 1
    /\ set.blocks = <<Inserted>>

\* C30: with depth >= 1 and blocks inserted under strictly rising numbers,
\* with Shift called at any height in between, the tracker never holds more
\* than depth blocks once a call has returned.
C30_AtMostDepthBlocks ==
    set.depth >= 1 => Len(set.blocks) <= set.depth

C30_Witness ==
    /\ set.call.op = "Insert"
    /\ set.depth = 2
    /\ Len(set.before) = 2
    /\ Len(set.log) = 1
    /\ Len(set.blocks) = 2

\* C31: after any calls of Insert and Shift, with any block numbers in any
\* order, the tracked blocks read from the oldest to the newest have
\* non-decreasing numbers.
C31_BlocksInRisingOrder ==
    \A i \in 1..Len(set.blocks) - 1 : set.blocks[i].index <= set.blocks[i + 1].index

\* C32: after any calls of Insert and Shift, also two Inserts of the same
\* (index, hash), no (index, hash) is tracked twice.
C32_NoBlockTrackedTwice ==
    \A i, j \in 1..Len(set.blocks) : set.blocks[i] = set.blocks[j] => i = j

\* C33: a call of the tracker is one critical section: while an Insert is
\* between its aging step and its append, no other Insert or Shift changes
\* the tracked blocks.
C33_InsertIsOneSection ==
    [][(set.pending # << >> /\ set'.call.op # "Insert:append") =>
           set'.blocks = set.blocks]_vars

C35_ShortRosterIsAnError ==
    (/\ last = "apply"
     /\ hdrs # << >>
     /\ USub(Last(hdrs).Number, 1) % TermBlocks = 0
     /\ Len(Last(trace).Candidates) < config.TermLen) =>
        /\ err \notin {ErrNil, PanicSliceBounds}
        /\ ret = << >>
        /\ s = pre

\* The static roster: the first TermLen candidates.
StaticRoster == [i \in 1..config.TermLen |-> DefaultCandidates[i]]

\* C36: a checkpoint header of term T with a number below MaxInitBlockNumber
\* installs the static roster as the committee of term T + 1; a checkpoint
\* header at or above MaxInitBlockNumber leaves term T + 1 as it was.
C36_StaticRosterBelowMaxInit ==
    (Applied /\ USub(Last(hdrs).Number, 1) % TermBlocks = 0) =>
        LET n == Last(hdrs).Number
            next == (n - 1) \div TermBlocks + 1
            before == trace[Len(trace) - 1].RecentSigners
            after == ret[1].RecentSigners
        IN IF n < config.MaxInitBlockNumber
           THEN next \in DOMAIN after /\ after[next] = StaticRoster
           ELSE next \in DOMAIN after =>
                    next \in DOMAIN before /\ after[next] = before[next]

C36_Witness ==
    /\ Applied
    /\ Last(hdrs).Number = TermBlocks + 1
    /\ Last(hdrs).Number < config.MaxInitBlockNumber
    /\ 2 \notin DOMAIN pre.RecentSigners
    /\ ret[1].RecentSigners[2] = StaticRoster
    /\ ret[1].RecentSigners[2] # seedSigners

\* C37: once the headers 1..n have been applied to the genesis snapshot, the
\* committee SignersOf(n) finds for the term of block n is not empty, whatever
\* MaxInitBlockNumber is.
C37_NoGapInSchedule ==
    (Applied /\ Contiguous /\ StartsAfterPre) =>
        SignersOf(ret[1], Last(hdrs).Number) # << >>

\* C38: a header applied to a chain grown from the genesis snapshot writes
\* only terms that hold no committee yet: the term of the static roster and
\* the term of the election differ and neither is stored before the header,
\* and every term stored before and after the header keeps its committee.
C38_TermInstalledOnce ==
    (Applied /\ Contiguous /\ StartsAfterPre) =>
        LET n == Last(hdrs).Number
            before == trace[Len(trace) - 1].RecentSigners
            after == ret[1].RecentSigners
            static == UAdd(TermOf(n), 1)
            elected == FutureTermOf(n)
        IN /\ \A t \in DOMAIN before \cap DOMAIN after : after[t] = before[t]
           /\ USub(n, 1) % TermBlocks = 0 =>
                 /\ ifUseDefaultSigners(ret[1]) => static \notin DOMAIN before
                 /\ ifStartElection(ret[1]) => elected \notin DOMAIN before
                 /\ ifUseDefaultSigners(ret[1]) /\ ifStartElection(ret[1]) =>
                        static # elected

C38_Witness ==
    /\ Applied
    /\ Last(hdrs).Number = TermBlocks + 1
    /\ ifUseDefaultSigners(ret[1])
    /\ ifStartElection(ret[1])
    /\ DOMAIN pre.RecentSigners = {0, 1, 3}
    /\ DOMAIN ret[1].RecentSigners = {0, 1, 2, 3, 4}
    /\ ret[1].RecentSigners[2] # ret[1].RecentSigners[4]

\* The blocks of term t, and the blocks for which IsProposerOf answers true.
BlocksOf(t) == (t * TermBlocks + 1)..((t + 1) * TermBlocks)
TurnsOf(a, t) == {n \in BlocksOf(t) : IsProposerOf(s, a, n).ok}

\* C39: on the snapshot as setRecentProposers leaves it, for every term with
\* a proposer committee of TermLen distinct addresses and every block n of
\* the term, exactly one address is in turn,
\* the slot ((n - 1) mod (TermLen * ViewLen)) div ViewLen is below TermLen,
\* and the i-th member of the committee is in turn for the i-th run of
\* ViewLen consecutive blocks of the term and for no other block.
C39_OneProposerPerView ==
    \A t \in DOMAIN s.RecentProposers :
        LET c == s.RecentProposers[t]
        IN (/\ last = "setRecentProposers"
            /\ Len(c) = config.TermLen
            /\ \A i, j \in 1..Len(c) : c[i] = c[j] => i = j) =>
               /\ \A n \in BlocksOf(t) :
                     /\ ((n - 1) % TermBlocks) \div config.ViewLen < config.TermLen
                     /\ Cardinality({a \in QueryAddrs : IsProposerOf(s, a, n).ok}) = 1
               /\ \A i \in 1..Len(c) :
                     TurnsOf(c[i], t) =
                         {n \in BlocksOf(t) :
                             (n - 1 - t * TermBlocks) \div config.ViewLen = i - 1}

C39_Witness ==
    /\ last = "setRecentProposers"
    /\ config.TermLen = 2
    /\ config.ViewLen = 2
    /\ DOMAIN s.RecentProposers = {0, 1}
    /\ s.RecentProposers[0] # s.RecentProposers[1]
    /\ TurnsOf(s.RecentProposers[1][2], 1) = {7, 8}
    /\ TurnsOf(s.RecentProposers[1][2], 0) = {1, 2}

\* C40: Shift looks at each tracked block at most once, every lookup being
\* for a block it drops; and a Shift(h') that follows a Shift(h) with
\* h' <= h drops no block, makes no lookup and reports nothing.
C40_ShiftIsIdempotent ==
    [][set'.call.op = "Shift" =>
          /\ Len(set'.log) <= Len(set.blocks)
          /\ Len(set'.blocks) + Len(set'.log) = Len(set.blocks)
          /\ (set.call.op = "Shift" /\ set'.call.index <= set.call.index) =>
                 set'.blocks = set.blocks /\ set'.log = << >>]_vars

C40_Witness ==
    /\ set.call.op = "Shift"
    /\ set.depth = 1
    /\ set.call.index = 1
    /\ set.before = <<[index |-> 1, hash |-> 0], [index |-> 0, hash |-> 1]>>
    /\ set.blocks = set.before
    /\ set.log = << >>

====
